---- MODULE Spec2Model ----
(***************************************************************************)
(* The real-time scoreboard of problem 6: the write path (idempotency      *)
(* guard, ranking store, cache invalidation, change notifier), the read    *)
(* path (cache-aside leaderboard snapshot with a TTL) and the per-user     *)
(* rate limiter; the users API of problem 5: UserController and            *)
(* UserService over UserModel and the users table, with the start of the   *)
(* server and the seed; and the three sums of problem 4.                   *)
(*                                                                         *)
(* The specifications share the state and the actions:                     *)
(*   Spec            one update handler at a time over all participants    *)
(*   SpecConc        concurrent update handlers over the first participants*)
(*   SpecCache       one update handler, concurrent readers, cache clock   *)
(*   SpecRate        the rate limiter and its clock                        *)
(*   SpecGate        update handlers behind the rate limiter               *)
(*   SpecLive        update handlers that run to their end                 *)
(*   SpecUsers       concurrent clients of the users API                   *)
(*   SpecSolo        one client of the users API, writes and reads         *)
(*   SpecPages       one client asking for pages of a changing table       *)
(*   SpecValidation  one client creating users from bodies of every kind   *)
(*   SpecEdits       one client creating users and editing them            *)
(*   SpecSort        one client listing users in the orders it asks for    *)
(*   SpecPaging      concurrent clients listing pages among writes         *)
(*   SpecBoot        the start of the server, the seed, then requests      *)
(*   SpecSum         sum_to_n_a, sum_to_n_b and sum_to_n_c on 0..MaxN      *)
(***************************************************************************)
EXTENDS Integers, Sequences, FiniteSets, TLC

\* ------------------------------------------------------------------ bounds
NumParticipants == 3      \* participants of Spec
NumConcurrent == 2        \* participants of SpecConc
TopSize == 2              \* K, the size of the leaderboard (10 in the design)
MaxSeq == 2               \* command sequence numbers are 1..MaxSeq
ScoreCeiling == 2         \* the highest score a participant can hold
NumReqs == 2              \* update handlers in flight at once
NumReaders == 2           \* read handlers in flight at once
MaxGen == 4               \* generations are stamped up to MaxGen
NumCached == 1            \* participants of SpecCache
NumLimited == 2           \* participants of SpecRate
TickStep == 30            \* seconds the rate limiter's clock advances at once
MaxTime == 360            \* the rate limiter's clock stops here
MaxOver == 2              \* calls made beyond the limit inside one window
NumClients == 2           \* clients of the users API with a request in flight
MaxId == 3                \* the SERIAL sequence of users.id is used up to MaxId
MaxSharedId == 2          \* ... and up to MaxSharedId by concurrent clients
MaxClock == 2             \* the database clock runs from 1 to MaxClock
MaxPage == 4              \* page numbers asked for are -1..MaxPage
MaxLimit == 2             \* page sizes asked for are -1..MaxLimit and the cap
MaxN == 12                \* sum_to_n is run on 0..MaxN

\* -------------------------------------------------------- program constants
CacheTTL == 5             \* "Cache result (TTL: 5s)"
Limit == 10               \* if (count > 10), points: 10
Window == 60              \* redis.expire(key, 60), duration: 60
BlockDuration == 300      \* blockDuration: 300
MaxAge == 150             \* data.age > 150
MaxPageSize == 100        \* Math.min(100, filters.limit)

Participants == 1..NumParticipants
Reqs == 1..NumReqs
Readers == 1..NumReaders
Deltas == {-1, 1, 2}

VARIABLES
    score,      \* participant -> current score
    lastSeq,    \* participant -> last applied command sequence number
    members,    \* participants registered by a first accepted delta
    applied,    \* the <<participant, seq>> commands that returned Applied
    req,        \* update handler -> its position and locals
    cache,      \* the key "leaderboard:global": the cached snapshot and its TTL
    generation, \* last generation stamped on a snapshot or an event
    published,  \* highest generation handed to a consumer so far
    rd,         \* read handler -> its position and locals
    now,        \* the rate limiter's clock, in seconds
    rlBlock,    \* the limiter's block duration (0: the plain counter)
    rlCount,    \* rate-limit key -> its counter (0: no such key)
    rlExpire,   \* rate-limit key -> the time the key expires
    rlOut,      \* the limiter's last answer
    window,     \* participant -> the window its calls are counted in
    users,      \* the users table: id -> row
    nextId,     \* the next value of the SERIAL sequence of users.id
    clock,      \* CURRENT_TIMESTAMP of the database
    op,         \* client -> the request it has in flight
    calc,       \* the run of sum_to_n.ts on one test case
    server      \* the server process: its position in startServer

rateVars == <<now, rlBlock, rlCount, rlExpire, rlOut, window>>
storeVars == <<score, lastSeq, members, applied>>
engineVars == <<score, lastSeq, members, applied, req, cache, generation, published, rd>>
userVars == <<users, nextId, clock, op>>
hostVars == <<calc, server>>
vars == <<engineVars, rateVars, userVars, hostVars>>

\* ------------------------------------------------------------ ranking store

\* Ties broken the other way round.
BeforeIdDescending(sc, x, y) ==
    \/ sc[x] > sc[y]
    \/ sc[x] = sc[y] /\ x > y

\* The order of the leaderboard: score descending, then participant id ascending.
Before(sc, x, y) ==
    \/ sc[x] > sc[y]
    \/ sc[x] = sc[y] /\ x < y

Best(sc, S) == CHOOSE x \in S : \A y \in S \ {x} : Before(sc, x, y)

RECURSIVE Ranked(_, _)
Ranked(sc, S) ==
    IF S = {} THEN << >>
    ELSE LET b == Best(sc, S)
         IN  <<[id |-> b, score |-> sc[b]]>> \o Ranked(sc, S \ {b})

Min(a, b) == IF a < b THEN a ELSE b
Max(a, b) == IF a > b THEN a ELSE b

\* topK(n), getTop10(): the first n entries of the ranking.
TopK(sc, mem, n) == SubSeq(Ranked(sc, mem), 1, Min(n, Cardinality(mem)))

Ids(top) == {top[i].id : i \in 1..Len(top)}

\* rankOf: the 1-based position of p in a ranking, 0 when p is not in it.
PosIn(top, p) ==
    IF p \in Ids(top) THEN CHOOSE i \in 1..Len(top) : top[i].id = p ELSE 0

\* ---------------------------------------------------------- update handler

NoTop == << >>
NoEvent == [gen |-> 0, top |-> NoTop, affected |-> {}]
IdleReq == [pc |-> "idle", p |-> 0, seq |-> 0, delta |-> 0, res |-> "none",
            old |-> 0, prev |-> NoTop, cur |-> NoTop, curScore |-> 0,
            emitted |-> FALSE, event |-> NoEvent, since |-> -1]

\* A guard that lets the last applied command through again.
AdmitAtLeast(p, s) == s >= lastSeq[p]

\* A guard that only refuses the last applied command.
AdmitNotLast(p, s) == s # lastSeq[p]

\* A guard that admits every command.
AdmitAll(p, s) == TRUE

\* The idempotency guard: a command is admitted iff its sequence number is
\* greater than the participant's last applied one.
Admit(p, s) == s > lastSeq[p]

\* A store without the floor.
ClampNone(v) == v

\* Scores never go below zero.
Clamp(v) == Max(0, v)

\* Every participant of the new snapshot flagged as changed.
AffectedAll(prev, cur) == Ids(cur)

\* The participants whose rank changed between two top-K rankings.
AffectedSet(prev, cur) ==
    {p \in Participants : PosIn(prev, p) # PosIn(cur, p)}

\* A stamp that reuses the last generation.
StampSame == generation

\* Generations are handed out by one counter.
StampGeneration == generation + 1

NoSnapshot == [valid |-> FALSE, snap |-> NoTop, gen |-> 0, ttl |-> 0]
IdleReader == [pc |-> "idle", snap |-> NoTop, gen |-> 0, hit |-> FALSE]

InitEngine ==
    /\ score = [p \in Participants |-> 0]
    /\ lastSeq = [p \in Participants |-> 0]
    /\ members = {}
    /\ applied = {}
    /\ req = [r \in Reqs |-> IdleReq]
    /\ cache = NoSnapshot
    /\ generation = 0
    /\ published = 0
    /\ rd = [q \in Readers |-> IdleReader]

\* ------------------------------------------------------------- rate limiter

Limited == 1..NumLimited
NoWindow == [start |-> -1, calls |-> 0, exceededAt |-> -1]
NoAnswer == [p |-> 0, res |-> "none"]

InitLimiter(blocks) ==
    /\ now = 0
    /\ rlBlock \in blocks
    /\ rlCount = [k \in Limited |-> 0]
    /\ rlExpire = [k \in Limited |-> 0]
    /\ rlOut = NoAnswer
    /\ window = [p \in Limited |-> NoWindow]

\* One counter for every user.
RateKeyShared(p) == 1

\* const key = `rate_limit:${userId}`
RateKey(p) == p

\* if (count > 10) throw new Error("Rate limit exceeded")
Exceeded(count) == count > Limit

\* The block of the distributed limiter runs from the call that exceeded the limit.
Blocked(p) ==
    /\ rlBlock > 0
    /\ window[p].exceededAt >= 0
    /\ now < window[p].exceededAt + rlBlock

\* The window a call of p at the current time is counted in: a call opens a new
\* window once the window (60 s from its first call) is over; a call made
\* during a block is not counted.
WindowAt(p) ==
    LET w == window[p] IN
    IF Blocked(p) THEN w
    ELSE IF w.start < 0 \/ now >= w.start + Window
         THEN [start |-> now, calls |-> 1, exceededAt |-> -1]
         ELSE [w EXCEPT !.calls = @ + 1,
                        !.exceededAt = IF w.calls = Limit THEN now ELSE @]

\* allow(participantId, now): redis.incr, redis.expire on the first call of a
\* window, refusal beyond the limit; with a block duration the key then lives
\* for that long.
Consume(p) ==
    LET k == RateKey(p)
        count == rlCount[k] + 1
        expire == IF count = 1 THEN now + Window
                  ELSE IF rlBlock > 0 /\ count = Limit + 1 THEN now + rlBlock
                  ELSE rlExpire[k]
    IN  /\ count <= Limit + MaxOver
        /\ rlCount' = [rlCount EXCEPT ![k] = count]
        /\ rlExpire' = [rlExpire EXCEPT ![k] = expire]
        /\ rlOut' = [p |-> p, res |-> IF Exceeded(count) THEN "RateLimited"
                                                          ELSE "Allowed"]
        /\ window' = [window EXCEPT ![p] = WindowAt(p)]
        /\ UNCHANGED <<now, rlBlock, userVars, hostVars>>

Allow(p) == Consume(p) /\ UNCHANGED engineVars

\* Time passes; Redis drops the keys whose TTL has run out.
Advance ==
    /\ now + TickStep <= MaxTime
    /\ now' = now + TickStep
    /\ rlCount' = [k \in Limited |->
                      IF rlCount[k] > 0 /\ rlExpire[k] <= now + TickStep
                      THEN 0 ELSE rlCount[k]]
    /\ rlExpire' = [k \in Limited |->
                       IF rlExpire[k] <= now + TickStep THEN 0 ELSE rlExpire[k]]
    /\ rlOut' = NoAnswer
    /\ UNCHANGED <<rlBlock, window, engineVars, userVars, hostVars>>

\* A transport hands the engine a command {participantId, delta, commandId}.
Submit(r, p, s, d) ==
    /\ req[r].pc = "idle"
    /\ req' = [req EXCEPT ![r] = [IdleReq EXCEPT !.pc = "pending", !.p = p,
                                                 !.seq = s, !.delta = d]]
    /\ UNCHANGED <<storeVars, cache, generation, published, rd, rateVars,
                   userVars, hostVars>>

\* A command goes through the rate limiter before it reaches the engine; a
\* refused one is answered at once.
SubmitLimited(r, p, s, d) ==
    /\ req[r].pc = "idle"
    /\ Consume(p)
    /\ req' = [req EXCEPT ![r] =
                 IF rlOut'.res = "RateLimited"
                 THEN [IdleReq EXCEPT !.pc = "done", !.p = p, !.seq = s,
                                      !.delta = d, !.res = "RateLimited"]
                 ELSE [IdleReq EXCEPT !.pc = "pending", !.p = p, !.seq = s,
                                      !.delta = d]]
    /\ UNCHANGED <<storeVars, cache, generation, published, rd>>

\* The critical section: check the sequence, apply the delta, record the sequence.
ApplyDelta(r) ==
    LET c == req[r] IN
    /\ c.pc = "pending"
    /\ IF ~Admit(c.p, c.seq)
       THEN /\ req' = [req EXCEPT ![r].pc = "done", ![r].res = "RejectedDuplicate"]
            /\ UNCHANGED storeVars
       ELSE IF score[c.p] + c.delta > ScoreCeiling
       THEN /\ req' = [req EXCEPT ![r].pc = "done", ![r].res = "RejectedInvalid"]
            /\ UNCHANGED storeVars
       ELSE /\ score' = [score EXCEPT ![c.p] = Clamp(score[c.p] + c.delta)]
            /\ lastSeq' = [lastSeq EXCEPT ![c.p] = c.seq]
            /\ members' = members \cup {c.p}
            /\ applied' = applied \cup {<<c.p, c.seq>>}
            /\ req' = [req EXCEPT ![r].pc = "invalidate", ![r].res = "Applied",
                                  ![r].old = score[c.p],
                                  ![r].prev = TopK(score, members, TopSize),
                                  ![r].since =
                                      IF TopK(score', members', TopSize)
                                             # TopK(score, members, TopSize)
                                      THEN generation ELSE -1]
    /\ UNCHANGED <<cache, generation, published, rd, rateVars, userVars, hostVars>>

\* updateScoreboard step 2: redis.del("leaderboard:global").
Invalidate(r) ==
    /\ req[r].pc = "invalidate"
    /\ cache' = NoSnapshot
    /\ req' = [req EXCEPT ![r].pc = "getTop", ![r].since = -1]
    /\ UNCHANGED <<storeVars, generation, published, rd, rateVars, userVars, hostVars>>

\* updateScoreboard step 3: currentTop10 = await getTop10().
GetTop(r) ==
    /\ req[r].pc = "getTop"
    /\ req' = [req EXCEPT ![r].pc = "emit",
                          ![r].cur = TopK(score, members, TopSize),
                          ![r].curScore = score[req[r].p]]
    /\ UNCHANGED <<storeVars, cache, generation, published, rd, rateVars,
                   userVars, hostVars>>

\* A notifier that broadcasts every update.
ShouldEmitAlways(c) == TRUE

\* A notifier that forgets the wasInTop10 half of the test.
ShouldEmitIfNowInTop(c) == c.p \in Ids(c.cur)

WasInTop(c) == c.p \in Ids(c.prev)
IsInTop(c) == c.p \in Ids(c.cur)

\* A notifier that forgets the isInTop10 half of the test.
ShouldEmitIfWasInTop(c) == WasInTop(c)

\* updateScoreboard step 4: broadcast if the updated user was or is in the top.
ShouldEmit(c) == WasInTop(c) \/ IsInTop(c)

Emit(r) ==
    LET c == req[r] IN
    /\ c.pc = "emit"
    /\ IF ShouldEmit(c)
       THEN /\ generation' = StampGeneration
            /\ published' = Max(published, StampGeneration)
            /\ req' = [req EXCEPT ![r].pc = "done", ![r].emitted = TRUE,
                          ![r].event = [gen |-> StampGeneration, top |-> c.cur,
                                        affected |-> AffectedSet(c.prev, c.cur)]]
       ELSE /\ req' = [req EXCEPT ![r].pc = "done"]
            /\ UNCHANGED <<generation, published>>
    /\ UNCHANGED <<storeVars, cache, rd, rateVars, userVars, hostVars>>

\* The handler answers its caller and the slot is free again.
Return(r) ==
    /\ req[r].pc = "done"
    /\ req' = [req EXCEPT ![r] = IdleReq]
    /\ UNCHANGED <<storeVars, cache, generation, published, rd, rateVars,
                   userVars, hostVars>>

\* ------------------------------------------------------------ read handler

\* GET /scoreboard/top10: "Check cached leaderboard"; a hit returns the cached data.
CheckCache(q) ==
    /\ rd[q].pc = "idle"
    /\ IF cache.valid
       THEN rd' = [rd EXCEPT ![q] = [pc |-> "done", snap |-> cache.snap,
                                     gen |-> cache.gen, hit |-> TRUE]]
       ELSE rd' = [rd EXCEPT ![q].pc = "miss"]
    /\ UNCHANGED <<storeVars, req, cache, generation, published, rateVars,
                   userVars, hostVars>>

\* Cache miss: "Query top 10 users".
QueryTop(q) ==
    /\ rd[q].pc = "miss"
    /\ rd' = [rd EXCEPT ![q].pc = "fill", ![q].snap = TopK(score, members, TopSize)]
    /\ UNCHANGED <<storeVars, req, cache, generation, published, rateVars,
                   userVars, hostVars>>

\* Cache miss: "Cache result (TTL: 5s)", stamped with a new generation.
FillCache(q) ==
    /\ rd[q].pc = "fill"
    /\ generation < MaxGen
    /\ generation' = StampGeneration
    /\ published' = Max(published, StampGeneration)
    /\ cache' = [valid |-> TRUE, snap |-> rd[q].snap, gen |-> StampGeneration,
                 ttl |-> CacheTTL]
    /\ rd' = [rd EXCEPT ![q].pc = "done", ![q].gen = StampGeneration]
    /\ UNCHANGED <<storeVars, req, rateVars, userVars, hostVars>>

\* "Return top 10 scores".
ReadReturn(q) ==
    /\ rd[q].pc = "done"
    /\ rd' = [rd EXCEPT ![q] = IdleReader]
    /\ UNCHANGED <<storeVars, req, cache, generation, published, rateVars,
                   userVars, hostVars>>

\* One second passes; the key is dropped when its TTL runs out.
Tick ==
    /\ cache.valid
    /\ cache' = IF cache.ttl > 1 THEN [cache EXCEPT !.ttl = @ - 1] ELSE NoSnapshot
    /\ UNCHANGED <<storeVars, req, generation, published, rd, rateVars, userVars, hostVars>>

\* ---------------------------------------------------------------- users API

Clients == 1..NumClients
UserIds == 1..MaxId

\* null and a value that is present; an optional field of a request body is a
\* key that its record has or has not.
Null == {}
Some(x) == {x}
NoData == [k \in {} |-> 0]

\* Strings that the code looks into are sequences of characters.
Trim(s) ==
    LET solid == {i \in 1..Len(s) : s[i] # " "} IN
    IF solid = {} THEN << >>
    ELSE SubSeq(s, CHOOSE i \in solid : \A j \in solid : i <= j,
                   CHOOSE i \in solid : \A j \in solid : i >= j)

\* !data.k || data.k.trim().length === 0
Required(data, k) ==
    \/ k \notin DOMAIN data
    \/ Len(data[k]) = 0
    \/ Len(Trim(data[k])) = 0

\* /^[^\s@]+@[^\s@]+\.[^\s@]+$/
EmailRegex(s) ==
    \E i, j \in 1..Len(s) :
        /\ 1 < i /\ i + 1 < j /\ j < Len(s)
        /\ s[i] = "@" /\ s[j] = "."
        /\ \A k \in (1..Len(s)) \ {i} : s[k] \notin {" ", "@"}

\* The age test without its upper half.
AgeOutOfRangeNoCeiling(data) == "age" \in DOMAIN data /\ data.age < 0

\* data.age !== undefined && (data.age < 0 || data.age > 150)
AgeOutOfRange(data) ==
    "age" \in DOMAIN data /\ (data.age < 0 \/ data.age > MaxAge)

\* validateCreateData: the message of the error it throws, "none" if it returns.
ValidateCreateData(data) ==
    IF Required(data, "name") THEN "Name is required"
    ELSE IF Required(data, "email") THEN "Email is required"
    ELSE IF ~EmailRegex(data.email) THEN "Invalid email format"
    ELSE IF AgeOutOfRange(data) THEN "Age must be between 0 and 150"
    ELSE IF Required(data, "role") THEN "Role is required"
    ELSE "none"

\* UserModel.findById(id): WHERE id = $1 AND deleted_at IS NULL
FindById(id) ==
    IF id \in DOMAIN users /\ users[id].deleted_at = Null
    THEN Some(users[id]) ELSE Null

\* UserModel.findByEmail(email): WHERE email = $1 AND deleted_at IS NULL
FindByEmail(email) ==
    LET found == {id \in DOMAIN users :
                     users[id].email = email /\ users[id].deleted_at = Null}
    IN  IF found = {} THEN Null
        ELSE Some(users[CHOOSE id \in found : \A other \in found : id <= other])

\* A unique index that leaves the soft-deleted rows out.
UniqueViolationAmongActive(email, self) ==
    \E id \in DOMAIN users :
        id # self /\ users[id].email = email /\ users[id].deleted_at = Null

\* email VARCHAR(255) UNIQUE NOT NULL: a row other than self holds the email.
UniqueViolation(email, self) ==
    \E id \in DOMAIN users : id # self /\ users[id].email = email

\* The row that UserModel.create inserts.
NewRow(id, data) ==
    [id |-> id,
     name |-> data.name,
     email |-> data.email,
     age |-> IF "age" \in DOMAIN data /\ data.age # 0 THEN Some(data.age) ELSE Null,
     role |-> data.role,
     status |-> IF "status" \in DOMAIN data /\ data.status # ""
                THEN data.status ELSE "active",
     deleted_at |-> Null,
     created_at |-> clock,
     updated_at |-> clock]

\* The columns UserModel.update sets from the request.
UpdFields == {"name", "email", "age", "role", "status"}

\* An update that stamps created_at as well.
UpdatedRowRestamped(row, data) ==
    [k \in DOMAIN row |->
        IF k \in DOMAIN data \cap UpdFields
        THEN IF k = "age" THEN Some(data[k]) ELSE data[k]
        ELSE IF k \in {"updated_at", "created_at"} THEN clock ELSE row[k]]

\* SET field = $n for the fields given, updated_at = CURRENT_TIMESTAMP
UpdatedRow(row, data) ==
    [k \in DOMAIN row |->
        IF k \in DOMAIN data \cap UpdFields
        THEN IF k = "age" THEN Some(data[k]) ELSE data[k]
        ELSE IF k = "updated_at" THEN clock ELSE row[k]]

\* The controllers' status codes.
CreateStatus(error) ==
    IF error = "none" THEN 201
    ELSE IF error = "Email already exists" THEN 409 ELSE 500

UpdateStatus(error, result) ==
    IF error = "Email already exists" THEN 409
    ELSE IF error # "none" THEN 500
    ELSE IF result = Null THEN 404 ELSE 200

\* A client's request: its position, its arguments and locals, its response;
\* was is the row as it stood before the client's last request soft-deleted it.
IdleOp == [pc |-> "idle", kind |-> "none", id |-> 0, data |-> NoData,
           existing |-> Null, result |-> Null, error |-> "none", status |-> 0,
           filters |-> NoData, total |-> Null, rows |-> Null,
           was |-> Null, matched |-> Null]

InitUsers ==
    /\ users = [id \in {} |-> 0]
    /\ nextId = 1
    /\ clock = 1
    /\ op = [c \in Clients |-> IdleOp]

\* Requests that will draw a value from the id sequence.
Inserting == {c \in Clients : op[c].kind = "create" /\ op[c].pc = "create"}

\* UserService.createUser up to its first write: validation, then findByEmail.
CreateUser(c, data) ==
    /\ op[c].pc = "idle"
    /\ nextId + Cardinality(Inserting) <= MaxId
    /\ LET error == ValidateCreateData(data)
           call == [IdleOp EXCEPT !.kind = "create", !.data = data]
       IN  op' = [op EXCEPT ![c] =
                IF error # "none"
                THEN [call EXCEPT !.pc = "done", !.error = error,
                                  !.status = CreateStatus(error)]
                ELSE IF FindByEmail(data.email) # Null
                THEN [call EXCEPT !.pc = "done",
                                  !.existing = FindByEmail(data.email),
                                  !.error = "Email already exists",
                                  !.status = CreateStatus("Email already exists")]
                ELSE [call EXCEPT !.pc = "create"]]
    /\ UNCHANGED <<users, nextId, clock, engineVars, rateVars, hostVars>>

\* UserModel.create: INSERT INTO users ... RETURNING *
UserModelCreate(c) ==
    LET o == op[c] IN
    /\ o.kind = "create" /\ o.pc = "create"
    /\ nextId' = nextId + 1
    /\ IF UniqueViolation(o.data.email, 0)
       THEN /\ op' = [op EXCEPT ![c].pc = "done", ![c].error = "duplicate key",
                                ![c].status = CreateStatus("duplicate key")]
            /\ UNCHANGED users
       ELSE /\ users' = (nextId :> NewRow(nextId, o.data)) @@ users
            /\ op' = [op EXCEPT ![c].pc = "done", ![c].id = nextId,
                                ![c].result = Some(NewRow(nextId, o.data)),
                                ![c].status = CreateStatus("none")]
    /\ UNCHANGED <<clock, engineVars, rateVars, hostVars>>

\* if (data.email && data.email !== existing.email)
ChangesEmail(data, existing) ==
    /\ "email" \in DOMAIN data
    /\ Len(data.email) > 0
    /\ \A row \in existing : data.email # row.email

\* UserService.updateUser up to its second query: findById.
UpdateUser(c, id, data) ==
    /\ op[c].pc = "idle"
    /\ LET call == [IdleOp EXCEPT !.kind = "update", !.id = id, !.data = data,
                                  !.existing = FindById(id)]
       IN  op' = [op EXCEPT ![c] =
                IF FindById(id) = Null
                THEN [call EXCEPT !.pc = "done",
                                  !.status = UpdateStatus("none", Null)]
                ELSE IF ChangesEmail(data, FindById(id))
                THEN [call EXCEPT !.pc = "findByEmail"]
                ELSE [call EXCEPT !.pc = "update"]]
    /\ UNCHANGED <<users, nextId, clock, engineVars, rateVars, hostVars>>

\* updateUser: emailExists = await UserModel.findByEmail(data.email)
UpdateFindByEmail(c) ==
    LET o == op[c] IN
    /\ o.kind = "update" /\ o.pc = "findByEmail"
    /\ op' = [op EXCEPT ![c] =
             IF FindByEmail(o.data.email) # Null
             THEN [o EXCEPT !.pc = "done", !.error = "Email already exists",
                            !.status = UpdateStatus("Email already exists", Null)]
             ELSE [o EXCEPT !.pc = "update"]]
    /\ UNCHANGED <<users, nextId, clock, engineVars, rateVars, hostVars>>

\* UserModel.update: UPDATE users SET ... WHERE id = $n RETURNING *
UserModelUpdate(c) ==
    LET o == op[c] IN
    /\ o.kind = "update" /\ o.pc = "update"
    /\ IF DOMAIN o.data \cap UpdFields = {}
       THEN /\ op' = [op EXCEPT ![c].pc = "done", ![c].result = FindById(o.id),
                                ![c].status = UpdateStatus("none", FindById(o.id))]
            /\ UNCHANGED users
       ELSE IF o.id \notin DOMAIN users
       THEN /\ op' = [op EXCEPT ![c].pc = "done",
                                ![c].status = UpdateStatus("none", Null)]
            /\ UNCHANGED users
       ELSE IF "email" \in DOMAIN o.data /\ UniqueViolation(o.data.email, o.id)
       THEN /\ op' = [op EXCEPT ![c].pc = "done", ![c].error = "duplicate key",
                                ![c].status = UpdateStatus("duplicate key", Null)]
            /\ UNCHANGED users
       ELSE /\ users' = [users EXCEPT ![o.id] = UpdatedRow(users[o.id], o.data)]
            /\ op' = [op EXCEPT ![c].pc = "done",
                                ![c].result = Some(UpdatedRow(users[o.id], o.data)),
                                ![c].status = 200]
    /\ UNCHANGED <<nextId, clock, engineVars, rateVars, hostVars>>

\* A delete that matches the soft-deleted rows too.
DeleteMatchesDeleted(id) == id \in DOMAIN users

\* WHERE id = $1 AND deleted_at IS NULL
DeleteMatches(id) == id \in DOMAIN users /\ users[id].deleted_at = Null

\* deleteUser: UPDATE users SET deleted_at = CURRENT_TIMESTAMP
\*             WHERE id = $1 AND deleted_at IS NULL
DeleteUser(c, id) ==
    /\ op[c].pc = "idle"
    /\ IF DeleteMatches(id)
       THEN /\ users' = [users EXCEPT ![id].deleted_at = Some(clock)]
            /\ op' = [op EXCEPT ![c] = [IdleOp EXCEPT !.pc = "done",
                         !.kind = "delete", !.id = id, !.status = 200,
                         !.was = Some(users[id])]]
       ELSE /\ op' = [op EXCEPT ![c] = [IdleOp EXCEPT !.pc = "done",
                         !.kind = "delete", !.id = id, !.status = 404]]
            /\ UNCHANGED users
    /\ UNCHANGED <<nextId, clock, engineVars, rateVars, hostVars>>

\* A restore that also stamps updated_at.
RestoredStamped(row) == [row EXCEPT !.deleted_at = Null, !.updated_at = clock]

\* SET deleted_at = NULL
Restored(row) == [row EXCEPT !.deleted_at = Null]

\* restoreUser: UPDATE users SET deleted_at = NULL
\*              WHERE id = $1 AND deleted_at IS NOT NULL RETURNING *
RestoreUser(c, id) ==
    /\ op[c].pc = "idle"
    /\ IF id \in DOMAIN users /\ users[id].deleted_at # Null
       THEN /\ users' = [users EXCEPT ![id] = Restored(users[id])]
            /\ op' = [op EXCEPT ![c] = [IdleOp EXCEPT !.pc = "done",
                         !.kind = "restore", !.id = id, !.status = 200,
                         !.result = Some(Restored(users[id]))]]
       ELSE /\ op' = [op EXCEPT ![c] = [IdleOp EXCEPT !.pc = "done",
                         !.kind = "restore", !.id = id, !.status = 404]]
            /\ UNCHANGED users
    /\ UNCHANGED <<nextId, clock, engineVars, rateVars, hostVars>>

\* hardDeleteUser: DELETE FROM users WHERE id = $1
HardDeleteUser(c, id) ==
    /\ op[c].pc = "idle"
    /\ IF id \in DOMAIN users
       THEN /\ users' = [other \in DOMAIN users \ {id} |-> users[other]]
            /\ op' = [op EXCEPT ![c] = [IdleOp EXCEPT !.pc = "done",
                         !.kind = "hardDelete", !.id = id, !.status = 200]]
       ELSE /\ op' = [op EXCEPT ![c] = [IdleOp EXCEPT !.pc = "done",
                         !.kind = "hardDelete", !.id = id, !.status = 404]]
            /\ UNCHANGED users
    /\ UNCHANGED <<nextId, clock, engineVars, rateVars, hostVars>>

\* ------------------------------------------------------------- users: reads

The(some) == CHOOSE x \in some : TRUE

\* The WHERE clause without its test of deleted_at.
MatchesDeletedToo(row, filters) ==
    /\ ("role" \in DOMAIN filters /\ Len(filters.role) > 0)
           => row.role = filters.role
    /\ ("status" \in DOMAIN filters /\ filters.status # "")
           => row.status = filters.status
    /\ "minAge" \in DOMAIN filters => \E a \in row.age : a >= filters.minAge
    /\ "maxAge" \in DOMAIN filters => \E a \in row.age : a <= filters.maxAge

\* The WHERE clause that count and findAll build from the filters.
Matches(row, filters) ==
    /\ \/ "includeDeleted" \in DOMAIN filters /\ filters.includeDeleted
       \/ row.deleted_at = Null
    /\ ("role" \in DOMAIN filters /\ Len(filters.role) > 0)
           => row.role = filters.role
    /\ ("status" \in DOMAIN filters /\ filters.status # "")
           => row.status = filters.status
    /\ "minAge" \in DOMAIN filters => \E a \in row.age : a >= filters.minAge
    /\ "maxAge" \in DOMAIN filters => \E a \in row.age : a <= filters.maxAge

Selected(filters) == {id \in DOMAIN users : Matches(users[id], filters)}

\* UserModel.count(filters): SELECT COUNT(*) FROM users WHERE ...
Count(filters) == Cardinality(Selected(filters))

AllowedSortColumns ==
    {"id", "name", "email", "age", "role", "created_at", "updated_at"}

\* filters?.sortBy || "id", filters?.sortOrder || "DESC", and the whitelist.
OrderBy(filters) ==
    LET sortBy == IF "sortBy" \in DOMAIN filters /\ filters.sortBy # ""
                  THEN filters.sortBy ELSE "id"
        sortOrder == IF "sortOrder" \in DOMAIN filters /\ filters.sortOrder # ""
                     THEN filters.sortOrder ELSE "DESC"
    IN  IF sortBy \in AllowedSortColumns THEN <<sortBy, sortOrder>>
        ELSE <<"id", "DESC">>

\* a sorts before b in ascending order of the column. NULL sorts as the
\* largest value; the order of text is left to the collation of the database.
ColLess(a, b, col) ==
    IF col \in {"id", "created_at", "updated_at"} THEN a[col] < b[col]
    ELSE IF col = "age"
    THEN a.age # Null /\ (b.age = Null \/ \E x \in a.age, y \in b.age : x < y)
    ELSE FALSE

\* The texts in the place of the direction that the database takes as one,
\* among those a request is made with; any other text fails the statement.
SqlDirections == {"ASC", "DESC", "DESC NULLS LAST"}

\* a must come before b under ORDER BY ${sortBy} ${sortOrder}.
RowBefore(a, b, filters) ==
    LET col == OrderBy(filters)[1]
        direction == OrderBy(filters)[2]
    IN  IF direction = "DESC" THEN ColLess(b, a, col)
        ELSE IF direction = "DESC NULLS LAST"
        THEN IF col = "age"
             THEN a.age # Null /\ (b.age = Null \/ ColLess(b, a, col))
             ELSE ColLess(b, a, col)
        ELSE ColLess(a, b, col)

\* The orders in which ORDER BY may return the selected rows.
Orderings(filters) ==
    LET ids == Selected(filters)
        n == Cardinality(ids)
    IN  {s \in [1..n -> ids] :
            /\ \A i, j \in 1..n : i # j => s[i] # s[j]
            /\ \A i, j \in 1..n :
                   i < j => ~RowBefore(users[s[j]], users[s[i]], filters)}

\* filters?.limit !== undefined && filters?.page !== undefined
Paged(filters) == "limit" \in DOMAIN filters /\ "page" \in DOMAIN filters

\* const offset = (filters.page - 1) * limit
Offset(filters) == (filters.page - 1) * filters.limit

\* The database refuses a negative LIMIT or OFFSET and a statement whose
\* ORDER BY clause it cannot parse.
SqlError(filters) ==
    \/ Paged(filters) /\ (filters.limit < 0 \/ Offset(filters) < 0)
    \/ OrderBy(filters)[2] \notin SqlDirections

LimitOffset(rows, filters) ==
    IF Paged(filters)
    THEN SubSeq(rows, Offset(filters) + 1,
                Min(Len(rows), Offset(filters) + filters.limit))
    ELSE rows

\* UserModel.findAll(filters): the results the query may give.
FindAll(filters) ==
    {LimitOffset([i \in 1..Cardinality(Selected(filters)) |-> users[s[i]]],
                 filters) : s \in Orderings(filters)}

\* A page number passed on as it came.
SanitizePageNone(page) == page

\* Math.max(1, filters.page)
SanitizePage(page) == Max(1, page)

\* Math.max(1, Math.min(100, filters.limit))
SanitizeLimit(limit) == Max(1, Min(MaxPageSize, limit))

\* The quotient rounded down.
CeilDown(a, b) == a \div b

\* Math.ceil(a / b) for a >= 0 and b > 0
Ceil(a, b) == IF a % b = 0 THEN a \div b ELSE a \div b + 1

\* The PaginatedResponse that getAllUsers builds.
PaginatedResponse(filters, totalCount, rows) ==
    LET totalPages == Ceil(totalCount, filters.limit)
        others == DOMAIN filters \ {"page", "limit"}
    IN  [success |-> TRUE,
         data |-> rows,
         pagination |-> [currentPage |-> filters.page,
                         pageSize |-> filters.limit,
                         totalCount |-> totalCount,
                         totalPages |-> totalPages,
                         hasNextPage |-> filters.page < totalPages,
                         hasPreviousPage |-> filters.page > 1],
         filters |-> IF others # {} THEN Some([k \in others |-> filters[k]])
                     ELSE Null]

\* UserService.getUserById
GetUserById(c, id) ==
    /\ op[c].pc = "idle"
    /\ op' = [op EXCEPT ![c] = [IdleOp EXCEPT !.pc = "done", !.kind = "getById",
                 !.id = id, !.result = FindById(id),
                 !.status = IF FindById(id) = Null THEN 404 ELSE 200]]
    /\ UNCHANGED <<users, nextId, clock, engineVars, rateVars, hostVars>>

\* UserService.getAllUsers up to its queries: with page and limit it passes
\* the sanitized filters to count and findAll, else the filters to findAll.
GetAllUsers(c, filters) ==
    /\ op[c].pc = "idle"
    /\ op' = [op EXCEPT ![c] =
             IF Paged(filters)
             THEN [IdleOp EXCEPT !.pc = "queries", !.kind = "getAll",
                      !.data = filters,
                      !.filters = [filters EXCEPT !.page = SanitizePage(@),
                                                  !.limit = SanitizeLimit(@)]]
             ELSE [IdleOp EXCEPT !.pc = "findAll", !.kind = "getAll",
                      !.data = filters, !.filters = filters]]
    /\ UNCHANGED <<users, nextId, clock, engineVars, rateVars, hostVars>>

\* Promise.all resolves when both queries have answered.
Completed(o) ==
    IF o.pc = "queries" /\ o.total # Null /\ o.rows # Null
    THEN [o EXCEPT !.pc = "done", !.status = 200,
             !.result = Some(PaginatedResponse(o.filters, The(o.total),
                                               The(o.rows)))]
    ELSE o

\* UserModel.count(sanitizedFilters) answers.
UserModelCount(c) ==
    LET o == op[c] IN
    /\ o.kind = "getAll" /\ o.pc = "queries" /\ o.total = Null
    /\ op' = [op EXCEPT ![c] =
                 Completed([o EXCEPT !.total = Some(Count(o.filters))])]
    /\ UNCHANGED <<users, nextId, clock, engineVars, rateVars, hostVars>>

\* UserModel.findAll(filters) answers.
UserModelFindAll(c) ==
    LET o == op[c] IN
    /\ o.kind = "getAll" /\ o.pc \in {"queries", "findAll"} /\ o.rows = Null
    /\ IF SqlError(o.filters)
       THEN op' = [op EXCEPT ![c].pc = "done", ![c].error = "query failed",
                             ![c].status = 500]
       ELSE \E rows \in FindAll(o.filters) :
                op' = [op EXCEPT ![c] =
                    IF o.pc = "findAll"
                    THEN [o EXCEPT !.pc = "done", !.rows = Some(rows),
                                   !.result = Some(rows), !.status = 200]
                    ELSE Completed([o EXCEPT !.rows = Some(rows),
                                 !.matched = Some(Count(o.filters))])]
    /\ UNCHANGED <<users, nextId, clock, engineVars, rateVars, hostVars>>

Active == {id \in DOMAIN users : users[id].deleted_at = Null}

\* getStats: SELECT COUNT(*) FROM users WHERE deleted_at IS NULL
GetStats(c) ==
    /\ op[c].pc = "idle"
    /\ op' = [op EXCEPT ![c] = [IdleOp EXCEPT !.pc = "roles",
                 !.kind = "getStats", !.total = Some(Cardinality(Active))]]
    /\ UNCHANGED <<users, nextId, clock, engineVars, rateVars, hostVars>>

\* getStats: SELECT DISTINCT role FROM users WHERE deleted_at IS NULL
GetStatsRoles(c) ==
    /\ op[c].kind = "getStats" /\ op[c].pc = "roles"
    /\ op' = [op EXCEPT ![c].pc = "status",
                 ![c].rows = Some({users[id].role : id \in Active})]
    /\ UNCHANGED <<users, nextId, clock, engineVars, rateVars, hostVars>>

\* getStats: SELECT status, COUNT(*) ... WHERE deleted_at IS NULL GROUP BY status
GetStatsStatus(c) ==
    LET o == op[c]
        breakdown == [st \in {users[id].status : id \in Active} |->
                         Cardinality({id \in Active : users[id].status = st})]
    IN  /\ o.kind = "getStats" /\ o.pc = "status"
        /\ op' = [op EXCEPT ![c].pc = "done", ![c].status = 200,
                     ![c].result = Some([totalUsers |-> The(o.total),
                                         roles |-> The(o.rows),
                                         statusBreakdown |-> breakdown])]
        /\ UNCHANGED <<users, nextId, clock, engineVars, rateVars, hostVars>>

\* The response is sent.
Respond(c) ==
    /\ op[c].pc = "done"
    /\ op' = [op EXCEPT ![c] = [IdleOp EXCEPT !.was = op[c].was]]
    /\ UNCHANGED <<users, nextId, clock, engineVars, rateVars, hostVars>>

\* The database clock moves on.
TimePasses ==
    /\ clock < MaxClock
    /\ clock' = clock + 1
    /\ UNCHANGED <<users, nextId, op, engineVars, rateVars, hostVars>>

\* Request bodies of the concurrent clients.
Email1 == <<"a", "@", "b", ".", "c">>
Email2 == <<"b", "@", "b", ".", "c">>
Name1 == <<"A">>
Name2 == <<"B">>
Role1 == <<"d">>

CreateBodies == {[name |-> Name1, email |-> e, role |-> Role1] : e \in {Email1, Email2}}
UpdateBodies == {[email |-> e] : e \in {Email1, Email2}} \cup {[name |-> Name2]}

\* Request bodies and queries of the client that works alone.
Email3 == <<"c", "@", "b", ".", "c">>
Role2 == <<"e">>
Age1 == 7

SoloBodies ==
    CreateBodies \cup {[name |-> Name2, email |-> Email3, age |-> Age1,
                        role |-> Role2, status |-> "inactive"]}

OtherFilters ==
    {NoData, [includeDeleted |-> TRUE], [role |-> Role1],
     [status |-> "active", sortBy |-> "age", sortOrder |-> "ASC"],
     [minAge |-> 0, includeDeleted |-> TRUE]}

PageInputs == {NoData} \cup {[page |-> n] : n \in -1..MaxPage}
LimitInputs ==
    {NoData} \cup {[limit |-> n] : n \in (-1..MaxLimit) \cup
                                        {MaxPageSize, MaxPageSize + 1}}

\* Request bodies that validateCreateData accepts or refuses.
NameInputs == {NoData} \cup {[name |-> x] : x \in {<< >>, <<" ">>, Name1}}
EmailInputs ==
    {NoData} \cup
    {[email |-> x] : x \in {<< >>, <<" ", " ">>, Email1, Email2,
                            <<"a", "b">>, <<"a", "@", "b">>,
                            <<"@", "b", ".", "c">>, <<"a", "@", ".", "c">>,
                            <<"a", "@", "b", ".">>, <<"a", ".", "b", "@", "c">>,
                            <<"a", "@", "@", "b", ".", "c">>,
                            <<"a", " ", "@", "b", ".", "c">>,
                            <<"a", "@", "b", ".", "c", ".", "d">>}}
AgeInputs == {NoData} \cup {[age |-> x] : x \in {-1, 0, Age1, MaxAge, MaxAge + 1}}
RoleInputs == {NoData} \cup {[role |-> x] : x \in {<< >>, <<" ">>, Role1}}

ValidationBodies ==
    {name @@ email @@ age @@ role :
        name \in NameInputs, email \in EmailInputs,
        age \in AgeInputs, role \in RoleInputs}

SoloFilters ==
    OtherFilters \cup {other @@ [page |-> 1, limit |-> MaxPageSize] :
                          other \in {NoData, [includeDeleted |-> TRUE]}}

\* Queries with the sortBy and sortOrder that a request can carry: any text.
SortByInputs ==
    {NoData} \cup {[sortBy |-> x] : x \in {"id", "age", "name", "password",
                                             "id; DROP TABLE users"}}
SortOrderInputs ==
    {NoData} \cup {[sortOrder |-> x] : x \in {"ASC", "DESC", "DESC NULLS LAST",
                                                "sideways"}}

SortFilters ==
    {sortBy @@ sortOrder : sortBy \in SortByInputs, sortOrder \in SortOrderInputs}

FilterInputs ==
    {other @@ page @@ limit :
        other \in OtherFilters, page \in PageInputs, limit \in LimitInputs}

\* --------------------------------------------------- users: PUT and PATCH

\* UserController.update: if (!name || !email || !role) answer 400
PutAccepts(body) ==
    \A k \in {"name", "email", "role"} : k \in DOMAIN body /\ Len(body[k]) > 0

\* UserController.partialUpdate: no field of the body is a field of a user
PatchAccepts(body) == DOMAIN body \cap UpdFields # {}

\* The controller answers 400 without calling the service.
BadRequest(c, id, body) ==
    /\ op[c].pc = "idle"
    /\ op' = [op EXCEPT ![c] = [IdleOp EXCEPT !.pc = "done", !.kind = "update",
                 !.id = id, !.data = body, !.status = 400]]
    /\ UNCHANGED <<users, nextId, clock, engineVars, rateVars, hostVars>>

\* PUT /users/:id
Put(c, id, body) ==
    IF PutAccepts(body) THEN UpdateUser(c, id, body) ELSE BadRequest(c, id, body)

\* PATCH /users/:id
Patch(c, id, body) ==
    IF PatchAccepts(body) THEN UpdateUser(c, id, body) ELSE BadRequest(c, id, body)

\* Bodies of PUT and PATCH requests, with fields that createUser would refuse.
PatchBodies ==
    {NoData, [name |-> <<" ">>], [email |-> <<"a", "b">>],
     [role |-> << >>], [age |-> Age1], [age |-> MaxAge + 1]}

PutBodies ==
    {[name |-> Name2, email |-> Email1, role |-> Role2],
     [name |-> <<" ">>, email |-> <<"a", "b">>, role |-> <<" ">>,
      age |-> MaxAge + 1],
     [name |-> Name2, email |-> Email1, role |-> << >>]}

\* ---------------------------------------------------------------- sum_to_n

\* The run of one test case: the argument, the locals of the loop of
\* sum_to_n_a, the call stack of sum_to_n_c and the three results.
IdleCalc == [pc |-> "idle", n |-> 0, i |-> 0, sum |-> 0, stack |-> << >>,
             ret |-> 0, resultA |-> -1, resultB |-> -1, resultC |-> -1]

\* const resultA = sum_to_n_a(n): let sum = 0; for (let i = 1; ...
StartCalc(n) == [IdleCalc EXCEPT !.pc = "a", !.n = n, !.i = 1, !.sum = 0]

\* for (let i = 1; i <= n; i++) { sum += i; } return sum;
sum_to_n_a ==
    /\ calc.pc = "a"
    /\ calc' = IF calc.i <= calc.n
               THEN [calc EXCEPT !.sum = @ + calc.i, !.i = @ + 1]
               ELSE [calc EXCEPT !.resultA = calc.sum, !.pc = "b"]
    /\ UNCHANGED <<server, engineVars, rateVars, userVars>>

\* The square halved.
HalfSquare(n) == (n * n) \div 2

\* (n * (n + 1)) / 2: n * (n + 1) is even, the quotient is exact
Gauss(n) == (n * (n + 1)) \div 2

\* return (n * (n + 1)) / 2; then const resultC = sum_to_n_c(n)
sum_to_n_b ==
    /\ calc.pc = "b"
    /\ calc' = [calc EXCEPT !.resultB = Gauss(calc.n), !.pc = "c",
                            !.stack = <<calc.n>>]
    /\ UNCHANGED <<server, engineVars, rateVars, userVars>>

\* One call of sum_to_n_c with the argument on top of the stack:
\* if (n <= 1) return n; else it calls sum_to_n_c(n - 1).
sum_to_n_c ==
    LET n == calc.stack[Len(calc.stack)] IN
    /\ calc.pc = "c"
    /\ calc' = IF n <= 1
               THEN [calc EXCEPT !.ret = n, !.pc = "return",
                                 !.stack = SubSeq(@, 1, Len(@) - 1)]
               ELSE [calc EXCEPT !.stack = Append(@, n - 1)]
    /\ UNCHANGED <<server, engineVars, rateVars, userVars>>

\* return n + sum_to_n_c(n - 1): the call below has returned.
ReturnC ==
    /\ calc.pc = "return"
    /\ calc' = IF calc.stack = << >>
               THEN [calc EXCEPT !.resultC = calc.ret, !.pc = "done"]
               ELSE [calc EXCEPT !.ret = calc.stack[Len(calc.stack)] + @,
                                 !.stack = SubSeq(@, 1, Len(@) - 1)]
    /\ UNCHANGED <<server, engineVars, rateVars, userVars>>

\* ------------------------------------------------------------ server start

\* The server process: where startServer stands, the awaited calls that have
\* returned, the next sample user that seed inserts, and the exit code of a
\* process that has ended.
Listening == [pc |-> "listening", done |-> <<"connect", "migrate", "seed">>,
              i |-> 0, code |-> 0]
Starting == [pc |-> "connect", done |-> << >>, i |-> 0, code |-> 0]

\* const sampleUsers = [ ... ]
SampleUsers ==
    <<
      [name |->
         <<"J", "o", "h", "n", " ", "D", "o", "e">>,
       email |->
         <<"j", "o", "h", "n", ".", "d", "o", "e", "@", "e", "x",
           "a", "m", "p", "l", "e", ".", "c", "o", "m">>,
       age |-> 28,
       role |->
         <<"D", "e", "v", "e", "l", "o", "p", "e", "r">>,
       status |-> "active"],
      [name |->
         <<"J", "a", "n", "e", " ", "S", "m", "i", "t", "h">>,
       email |->
         <<"j", "a", "n", "e", ".", "s", "m", "i", "t", "h", "@",
           "e", "x", "a", "m", "p", "l", "e", ".", "c",
           "o", "m">>,
       age |-> 32,
       role |->
         <<"D", "e", "s", "i", "g", "n", "e", "r">>,
       status |-> "active"],
      [name |->
         <<"B", "o", "b", " ", "J", "o", "h", "n", "s", "o", "n">>,
       email |->
         <<"b", "o", "b", ".", "j", "o", "h", "n", "s", "o", "n",
           "@", "e", "x", "a", "m", "p", "l", "e", ".",
           "c", "o", "m">>,
       age |-> 45,
       role |->
         <<"M", "a", "n", "a", "g", "e", "r">>,
       status |-> "active"],
      [name |->
         <<"A", "l", "i", "c", "e", " ", "W", "i", "l", "l", "i",
           "a", "m", "s">>,
       email |->
         <<"a", "l", "i", "c", "e", ".", "w", "i", "l", "l", "i",
           "a", "m", "s", "@", "e", "x", "a", "m", "p",
           "l", "e", ".", "c", "o", "m">>,
       age |-> 29,
       role |->
         <<"D", "e", "v", "e", "l", "o", "p", "e", "r">>,
       status |-> "active"],
      [name |->
         <<"C", "h", "a", "r", "l", "i", "e", " ", "B", "r", "o",
           "w", "n">>,
       email |->
         <<"c", "h", "a", "r", "l", "i", "e", ".", "b", "r", "o",
           "w", "n", "@", "e", "x", "a", "m", "p", "l",
           "e", ".", "c", "o", "m">>,
       age |-> 35,
       role |->
         <<"D", "e", "v", "O", "p", "s">>,
       status |-> "active"],
      [name |->
         <<"D", "i", "a", "n", "a", " ", "P", "r", "i", "n", "c",
           "e">>,
       email |->
         <<"d", "i", "a", "n", "a", ".", "p", "r", "i", "n", "c",
           "e", "@", "e", "x", "a", "m", "p", "l", "e",
           ".", "c", "o", "m">>,
       age |-> 27,
       role |->
         <<"D", "e", "s", "i", "g", "n", "e", "r">>,
       status |-> "active"],
      [name |->
         <<"E", "d", "w", "a", "r", "d", " ", "N", "o", "r", "t",
           "o", "n">>,
       email |->
         <<"e", "d", "w", "a", "r", "d", ".", "n", "o", "r", "t",
           "o", "n", "@", "e", "x", "a", "m", "p", "l",
           "e", ".", "c", "o", "m">>,
       age |-> 41,
       role |->
         <<"A", "r", "c", "h", "i", "t", "e", "c", "t">>,
       status |-> "active"],
      [name |->
         <<"F", "i", "o", "n", "a", " ", "G", "r", "e", "e", "n">>,
       email |->
         <<"f", "i", "o", "n", "a", ".", "g", "r", "e", "e", "n",
           "@", "e", "x", "a", "m", "p", "l", "e", ".",
           "c", "o", "m">>,
       age |-> 30,
       role |->
         <<"Q", "A", " ", "E", "n", "g", "i", "n", "e", "e", "r">>,
       status |-> "active"],
      [name |->
         <<"G", "e", "o", "r", "g", "e", " ", "M", "i", "l", "l",
           "e", "r">>,
       email |->
         <<"g", "e", "o", "r", "g", "e", ".", "m", "i", "l", "l",
           "e", "r", "@", "e", "x", "a", "m", "p", "l",
           "e", ".", "c", "o", "m">>,
       age |-> 38,
       role |->
         <<"P", "r", "o", "d", "u", "c", "t", " ", "M", "a", "n",
           "a", "g", "e", "r">>,
       status |-> "inactive"],
      [name |->
         <<"H", "a", "n", "n", "a", "h", " ", "L", "e", "e">>,
       email |->
         <<"h", "a", "n", "n", "a", "h", ".", "l", "e", "e", "@",
           "e", "x", "a", "m", "p", "l", "e", ".", "c",
           "o", "m">>,
       age |-> 26,
       role |->
         <<"D", "e", "v", "e", "l", "o", "p", "e", "r">>,
       status |-> "active"],
      [name |->
         <<"I", "a", "n", " ", "T", "h", "o", "m", "p", "s", "o",
           "n">>,
       email |->
         <<"i", "a", "n", ".", "t", "h", "o", "m", "p", "s", "o",
           "n", "@", "e", "x", "a", "m", "p", "l", "e",
           ".", "c", "o", "m">>,
       age |-> 33,
       role |->
         <<"D", "e", "v", "e", "l", "o", "p", "e", "r">>,
       status |-> "active"],
      [name |->
         <<"J", "u", "l", "i", "a", " ", "R", "o", "b", "e", "r",
           "t", "s">>,
       email |->
         <<"j", "u", "l", "i", "a", ".", "r", "o", "b", "e", "r",
           "t", "s", "@", "e", "x", "a", "m", "p", "l",
           "e", ".", "c", "o", "m">>,
       age |-> 29,
       role |->
         <<"U", "X", " ", "R", "e", "s", "e", "a", "r", "c", "h",
           "e", "r">>,
       status |-> "active"],
      [name |->
         <<"K", "e", "v", "i", "n", " ", "H", "a", "r", "t">>,
       email |->
         <<"k", "e", "v", "i", "n", ".", "h", "a", "r", "t", "@",
           "e", "x", "a", "m", "p", "l", "e", ".", "c",
           "o", "m">>,
       age |-> 40,
       role |->
         <<"M", "a", "n", "a", "g", "e", "r">>,
       status |-> "active"],
      [name |->
         <<"L", "a", "u", "r", "a", " ", "P", "a", "l", "m", "e",
           "r">>,
       email |->
         <<"l", "a", "u", "r", "a", ".", "p", "a", "l", "m", "e",
           "r", "@", "e", "x", "a", "m", "p", "l", "e",
           ".", "c", "o", "m">>,
       age |-> 31,
       role |->
         <<"D", "a", "t", "a", " ", "A", "n", "a", "l", "y", "s",
           "t">>,
       status |-> "active"],
      [name |->
         <<"M", "i", "c", "h", "a", "e", "l", " ", "S", "c", "o",
           "t", "t">>,
       email |->
         <<"m", "i", "c", "h", "a", "e", "l", ".", "s", "c", "o",
           "t", "t", "@", "e", "x", "a", "m", "p", "l",
           "e", ".", "c", "o", "m">>,
       age |-> 42,
       role |->
         <<"M", "a", "n", "a", "g", "e", "r">>,
       status |-> "inactive"]
    >>

\* The row that seed inserts for a sample user.
SeedRow(id, user) ==
    [id |-> id,
     name |-> user.name,
     email |-> user.email,
     age |-> Some(user.age),
     role |-> user.role,
     status |-> user.status,
     deleted_at |-> Null,
     created_at |-> clock,
     updated_at |-> clock]

\* await pool.query('SELECT NOW()')
Connect ==
    /\ server.pc = "connect"
    /\ server' = [server EXCEPT !.pc = "migrate", !.done = Append(@, "connect")]
    /\ UNCHANGED <<calc, engineVars, rateVars, userVars>>

\* await migrate(): CREATE TABLE IF NOT EXISTS users, indexes
Migrate ==
    /\ server.pc = "migrate"
    /\ server' = [server EXCEPT !.pc = "seed", !.done = Append(@, "migrate")]
    /\ UNCHANGED <<calc, engineVars, rateVars, userVars>>

\* A seed that inserts whatever the table holds.
SkipsSeedNever(count) == FALSE

\* if (count > 0) { ... return; }
SkipsSeed(count) == count > 0

\* seed(): SELECT COUNT(*) as count FROM users
SeedCount ==
    /\ server.pc = "seed"
    /\ server' = IF SkipsSeed(Cardinality(DOMAIN users))
                 THEN [server EXCEPT !.pc = "listen", !.done = Append(@, "seed")]
                 ELSE [server EXCEPT !.pc = "insert", !.i = 1]
    /\ UNCHANGED <<calc, engineVars, rateVars, userVars>>

\* seed(): INSERT INTO users (name, email, age, role, status) VALUES (...)
\* for one of the sample users; an error of the statement ends the process.
SeedInsert ==
    /\ server.pc = "insert"
    /\ nextId' = nextId + 1
    /\ IF UniqueViolation(SampleUsers[server.i].email, 0)
       THEN /\ server' = [server EXCEPT !.pc = "exited", !.code = 1]
            /\ UNCHANGED users
       ELSE /\ users' = (nextId :> SeedRow(nextId, SampleUsers[server.i])) @@ users
            /\ server' = IF server.i < Len(SampleUsers)
                         THEN [server EXCEPT !.i = @ + 1]
                         ELSE [server EXCEPT !.pc = "listen",
                                             !.done = Append(@, "seed")]
    /\ UNCHANGED <<clock, op, calc, engineVars, rateVars>>

\* A start that does not wait for seed.
ReadyBeforeSeed(process) == process.pc \in {"seed", "listen"}

\* await seed() has returned
Ready(process) == process.pc = "listen"

\* app.listen(PORT, ...)
Listen ==
    /\ Ready(server)
    /\ server' = [server EXCEPT !.pc = "listening"]
    /\ UNCHANGED <<calc, engineVars, rateVars, userVars>>

\* One of the awaited calls throws: catch (error) { process.exit(1) }
StartFails ==
    /\ server.pc \in {"connect", "migrate", "seed", "insert"}
    /\ server' = [server EXCEPT !.pc = "exited", !.code = 1]
    /\ UNCHANGED <<calc, engineVars, rateVars, userVars>>

\* The process has ended or is stopped (SIGINT, SIGTERM: process.exit(0)),
\* its requests in flight are lost, and it is started again.
Restart ==
    /\ server.pc \in {"listening", "exited"}
    /\ server' = Starting
    /\ op' = [c \in Clients |-> IdleOp]
    /\ UNCHANGED <<users, nextId, clock, calc, engineVars, rateVars>>

\* ----------------------------------------------------------- specifications

\* No test case is running and the server listens.
InitHost == calc = IdleCalc /\ server = Listening

Init == InitEngine /\ InitLimiter({0}) /\ InitUsers /\ InitHost

Concurrent == 1..NumConcurrent
Cached == 1..NumCached

Next ==
    \/ \E p \in Participants, s \in 1..MaxSeq, d \in Deltas : Submit(1, p, s, d)
    \/ ApplyDelta(1)
    \/ Invalidate(1)
    \/ GetTop(1)
    \/ Emit(1)
    \/ Return(1)

Spec == Init /\ [][Next]_vars

NextConc ==
    \/ \E r \in Reqs, p \in Concurrent, s \in 1..MaxSeq, d \in Deltas : Submit(r, p, s, d)
    \/ \E r \in Reqs : ApplyDelta(r)
    \/ \E r \in Reqs : Invalidate(r)
    \/ \E r \in Reqs : GetTop(r)
    \/ \E r \in Reqs : Emit(r)
    \/ \E r \in Reqs : Return(r)

SpecConc == Init /\ [][NextConc]_vars

NextCache ==
    \/ \E p \in Cached, s \in 1..MaxSeq, d \in Deltas : Submit(1, p, s, d)
    \/ ApplyDelta(1)
    \/ Invalidate(1)
    \/ GetTop(1)
    \/ Emit(1)
    \/ Return(1)
    \/ \E q \in Readers : CheckCache(q)
    \/ \E q \in Readers : QueryTop(q)
    \/ \E q \in Readers : FillCache(q)
    \/ \E q \in Readers : ReadReturn(q)
    \/ Tick

SpecCache == Init /\ [][NextCache]_vars

\* The limiter of the design is the plain counter or the distributed limiter
\* configured with a block duration.
InitRate == InitEngine /\ InitLimiter({0, BlockDuration}) /\ InitUsers /\ InitHost

NextRate ==
    \/ \E p \in Limited : Allow(p)
    \/ Advance

SpecRate == InitRate /\ [][NextRate]_vars

\* An update handler that has written the score runs to its end: its awaits
\* resolve.
Finishes(r) == Invalidate(r) \/ GetTop(r) \/ Emit(r)

\* Concurrent handlers over all participants, one gain for each participant.
Gains == {d \in Deltas : d > 0}

NextLive ==
    \/ \E r \in Reqs, p \in Participants, d \in Gains : Submit(r, p, MaxSeq, d)
    \/ \E r \in Reqs : ApplyDelta(r)
    \/ \E r \in Reqs : Invalidate(r)
    \/ \E r \in Reqs : GetTop(r)
    \/ \E r \in Reqs : Emit(r)
    \/ \E r \in Reqs : Return(r)

SpecLive == Init /\ [][NextLive]_vars /\ \A r \in Reqs : WF_vars(Finishes(r))

\* Commands of one participant pass the rate limiter, then the engine.
NextGate ==
    \/ \E r \in Reqs, p \in Cached, s \in 1..MaxSeq, d \in Deltas :
           SubmitLimited(r, p, s, d)
    \/ \E r \in Reqs : ApplyDelta(r)
    \/ \E r \in Reqs : Invalidate(r)
    \/ \E r \in Reqs : GetTop(r)
    \/ \E r \in Reqs : Emit(r)
    \/ \E r \in Reqs : Return(r)

SpecGate == Init /\ [][NextGate]_vars

\* Concurrent clients of the users API.
SharedIds == 1..MaxSharedId

NextUsers ==
    \/ \E c \in Clients, data \in CreateBodies :
           nextId + Cardinality(Inserting) <= MaxSharedId /\ CreateUser(c, data)
    \/ \E c \in Clients : UserModelCreate(c)
    \/ \E c \in Clients, id \in SharedIds, data \in UpdateBodies :
           UpdateUser(c, id, data)
    \/ \E c \in Clients : UpdateFindByEmail(c)
    \/ \E c \in Clients : UserModelUpdate(c)
    \/ \E c \in Clients, id \in SharedIds : DeleteUser(c, id)
    \/ \E c \in Clients, id \in SharedIds : RestoreUser(c, id)
    \/ \E c \in Clients, id \in SharedIds : HardDeleteUser(c, id)
    \/ \E c \in Clients : Respond(c)
    \/ TimePasses

SpecUsers == Init /\ [][NextUsers]_vars

\* One client of the users API: each request ends before the next begins.
Solo == 1

NextSolo ==
    \/ \E data \in SoloBodies : CreateUser(Solo, data)
    \/ UserModelCreate(Solo)
    \/ \E id \in UserIds, data \in UpdateBodies : UpdateUser(Solo, id, data)
    \/ UpdateFindByEmail(Solo)
    \/ UserModelUpdate(Solo)
    \/ \E id \in UserIds : DeleteUser(Solo, id)
    \/ \E id \in UserIds : RestoreUser(Solo, id)
    \/ \E id \in UserIds : HardDeleteUser(Solo, id)
    \/ \E id \in UserIds : GetUserById(Solo, id)
    \/ \E filters \in SoloFilters : GetAllUsers(Solo, filters)
    \/ UserModelCount(Solo)
    \/ UserModelFindAll(Solo)
    \/ GetStats(Solo)
    \/ GetStatsRoles(Solo)
    \/ GetStatsStatus(Solo)
    \/ Respond(Solo)
    \/ TimePasses

SpecSolo == Init /\ [][NextSolo]_vars

\* One client that fills the table, soft-deletes and asks for pages.
NextPages ==
    \/ \E data \in SoloBodies : CreateUser(Solo, data)
    \/ UserModelCreate(Solo)
    \/ \E id \in UserIds : DeleteUser(Solo, id)
    \/ \E filters \in FilterInputs : GetAllUsers(Solo, filters)
    \/ UserModelCount(Solo)
    \/ UserModelFindAll(Solo)
    \/ Respond(Solo)

SpecPages == Init /\ [][NextPages]_vars

\* One client that creates users from bodies of every kind.
NextValidation ==
    \/ \E data \in ValidationBodies : CreateUser(Solo, data)
    \/ UserModelCreate(Solo)
    \/ Respond(Solo)

SpecValidation == Init /\ [][NextValidation]_vars

\* The server is started and stopped again and again; while it listens, one
\* client creates, soft-deletes and hard-deletes users.
Up == server.pc = "listening"

NextBoot ==
    \/ Connect
    \/ Migrate
    \/ SeedCount
    \/ SeedInsert
    \/ Listen
    \/ StartFails
    \/ Restart
    \/ \E data \in CreateBodies : Up /\ CreateUser(Solo, data)
    \/ Up /\ UserModelCreate(Solo)
    \/ \E id \in SharedIds : Up /\ DeleteUser(Solo, id)
    \/ \E id \in SharedIds : Up /\ HardDeleteUser(Solo, id)
    \/ Up /\ Respond(Solo)

SpecBoot == Init /\ [][NextBoot]_vars

\* Clients that list pages of users while they create, delete and restore
\* users; the two queries of a listing are separate steps.
PagedFilters ==
    {[page |-> 1, limit |-> 1], [page |-> 2, limit |-> 1],
     [page |-> 1, limit |-> MaxLimit, includeDeleted |-> TRUE]}

NextPaging ==
    \/ \E c \in Clients, data \in SoloBodies :
           nextId + Cardinality(Inserting) <= MaxSharedId /\ CreateUser(c, data)
    \/ \E c \in Clients : UserModelCreate(c)
    \/ \E c \in Clients, id \in SharedIds : DeleteUser(c, id)
    \/ \E c \in Clients, id \in SharedIds : RestoreUser(c, id)
    \/ \E c \in Clients, filters \in PagedFilters : GetAllUsers(c, filters)
    \/ \E c \in Clients : UserModelCount(c)
    \/ \E c \in Clients : UserModelFindAll(c)
    \/ \E c \in Clients : Respond(c)

SpecPaging == Init /\ [][NextPaging]_vars

\* One client that creates users and lists them in the orders it asks for.
NextSort ==
    \/ \E data \in SoloBodies : CreateUser(Solo, data)
    \/ UserModelCreate(Solo)
    \/ \E filters \in SortFilters : GetAllUsers(Solo, filters)
    \/ UserModelFindAll(Solo)
    \/ Respond(Solo)

SpecSort == Init /\ [][NextSort]_vars

\* One client that creates users and edits them with PUT and PATCH.
NextEdits ==
    \/ \E data \in CreateBodies :
           nextId + Cardinality(Inserting) <= MaxSharedId /\ CreateUser(Solo, data)
    \/ UserModelCreate(Solo)
    \/ \E id \in SharedIds, body \in PutBodies : Put(Solo, id, body)
    \/ \E id \in SharedIds, body \in PatchBodies : Patch(Solo, id, body)
    \/ UpdateFindByEmail(Solo)
    \/ UserModelUpdate(Solo)
    \/ Respond(Solo)

SpecEdits == Init /\ [][NextEdits]_vars

\* sum_to_n.ts on the test cases 0..MaxN; each function runs to its return.
InitSum ==
    /\ InitEngine /\ InitLimiter({0}) /\ InitUsers
    /\ server = Listening
    /\ calc \in {StartCalc(n) : n \in 0..MaxN}

NextSum ==
    \/ sum_to_n_a
    \/ sum_to_n_b
    \/ sum_to_n_c
    \/ ReturnC

SpecSum == InitSum /\ [][NextSum]_vars /\ WF_vars(NextSum)

\* ------------------------------------------------------------------ claims

\* The handler r leaves the critical section in this step.
Decides(r) == req[r].pc = "pending" /\ req'[r].pc # "pending"

\* C1: a command is applied at most once. A submission of a command that was
\* applied before returns RejectedDuplicate and changes no score; a submission
\* that returns Applied is the first one of its command to do so and adds the
\* delta once; a command the guard and the score bounds admit is applied.
C1_ExactlyOnce ==
    [][\A r \in Reqs : Decides(r) =>
        LET c == req[r] IN
        /\ <<c.p, c.seq>> \in applied =>
               req'[r].res = "RejectedDuplicate" /\ score' = score
        /\ req'[r].res = "Applied" =>
               /\ <<c.p, c.seq>> \notin applied
               /\ score' = [score EXCEPT ![c.p] = Max(0, score[c.p] + c.delta)]
        /\ (c.seq > lastSeq[c.p] /\ score[c.p] + c.delta <= ScoreCeiling) =>
               req'[r].res = "Applied"
      ]_vars

\* Two handlers hold the same command; one applied it, the other was refused.
C1_Witness ==
    \E r1, r2 \in Reqs :
        /\ r1 # r2
        /\ req[r1].p = req[r2].p /\ req[r1].seq = req[r2].seq
        /\ req[r1].delta = req[r2].delta
        /\ req[r1].res = "Applied"
        /\ req[r2].res = "RejectedDuplicate"

C3_SeqIncreasing ==
    [][/\ \A p \in Participants : lastSeq'[p] >= lastSeq[p]
       /\ \A r \in Reqs : Decides(r) =>
            LET c == req[r] IN
            /\ req'[r].res = "Applied" =>
                   c.seq > lastSeq[c.p] /\ lastSeq'[c.p] = c.seq
            /\ c.seq > lastSeq[c.p] => req'[r].res # "RejectedDuplicate"
            /\ c.seq <= lastSeq[c.p] =>
                   req'[r].res = "RejectedDuplicate" /\ UNCHANGED storeVars
      ]_vars

\* A participant had commands 1 and 2 applied in that order, and a stale
\* command was refused.
C3_Witness ==
    \E p \in Participants :
        /\ <<p, 1>> \in applied /\ <<p, 2>> \in applied
        /\ \E r \in Reqs : /\ req[r].p = p /\ req[r].seq = 1
                            /\ req[r].res = "RejectedDuplicate"

\* The boundary score of a full top-K ranking: the score of its Kth entry.
HasBoundary(top) == Len(top) = TopSize
Boundary(top) == top[TopSize].score

\* The handler r has finished an accepted update.
Updated(r) == req[r].pc = "done" /\ req[r].res = "Applied"

IdSeq(top) == [i \in 1..Len(top) |-> top[i].id]

\* C6: the affected set of an event is the set of participants that entered
\* the top-K, left it or changed position inside it; a participant that keeps
\* its position is in the snapshot and not in the set. With the top-2 going
\* from [1, 2] to [1, 3] the affected set is {3, 2}.
C6_AffectedSet ==
    \A r \in Reqs :
        LET c == req[r]
            P == Ids(c.prev)
            C == Ids(c.cur)
            kept == {x \in P \cap C : PosIn(c.prev, x) = PosIn(c.cur, x)}
        IN  c.emitted =>
            /\ c.event.top = c.cur
            /\ c.event.affected = ((C \ P) \cup (P \ C) \cup ((P \cap C) \ kept))
            /\ kept \subseteq Ids(c.event.top) \ c.event.affected
            /\ (IdSeq(c.prev) = <<1, 2>> /\ IdSeq(c.cur) = <<1, 3>>)
                   => c.event.affected = {3, 2}

\* Participant 3 was raised from below participant 2 to between 1 and 2.
C6_Witness ==
    \E r \in Reqs :
        LET c == req[r] IN
        /\ c.emitted /\ c.p = 3
        /\ IdSeq(c.prev) = <<1, 2>>
        /\ IdSeq(c.cur) = <<1, 3>>
        /\ members = Participants
        /\ score[1] >= score[3] /\ score[3] > score[2] /\ c.old < score[2]
        /\ c.event.affected = {3, 2}

\* C7: every snapshot stored by the cache and every event published carries a
\* generation greater than every generation handed out before it.
C7_GenerationsIncrease ==
    [][/\ published' >= published
       /\ \A r \in Reqs : (req'[r].emitted /\ ~req[r].emitted) =>
              req'[r].event.gen > published /\ published' = req'[r].event.gen
       /\ \A q \in Readers : (rd[q].pc = "fill" /\ rd'[q].pc = "done") =>
              /\ cache'.gen > published
              /\ published' = cache'.gen
              /\ rd'[q].gen = cache'.gen
      ]_vars

\* An event was published, and a snapshot built after it is in the cache.
C7_Witness ==
    \E r \in Reqs :
        /\ req[r].emitted
        /\ cache.valid
        /\ cache.gen > req[r].event.gen
        /\ \E q \in Readers : rd[q].pc = "done" /\ rd[q].gen = cache.gen

\* C8 as claimed: a call is allowed iff it is among the first 10 of its
\* participant's window, and a call is refused only within 60 s of the start
\* of the window.
C8_WindowOnly ==
    rlOut.res # "none" =>
        LET w == window[rlOut.p] IN
        /\ rlOut.res = "Allowed" <=> w.calls <= Limit
        /\ rlOut.res = "RateLimited" => now < w.start + Window

\* C8, amended: a call is allowed iff it is among the first 10 of its
\* participant's window; a call is refused only within 60 s of the start of
\* the window or, with a block duration configured, while the block that
\* started with the 11th call runs. The windows of the participants are
\* counted apart.
C8_WindowOrBlock ==
    rlOut.res # "none" =>
        LET w == window[rlOut.p] IN
        /\ rlOut.res = "Allowed" <=> w.calls <= Limit
        /\ rlOut.res = "RateLimited" => (now < w.start + Window \/ Blocked(rlOut.p))

\* With the plain counter: the 11th call of a participant, 30 s after its
\* first, is refused while the other participant is inside its limit.
C8_Witness ==
    \E p, q \in Limited :
        /\ p # q
        /\ rlBlock = 0
        /\ rlOut = [p |-> p, res |-> "RateLimited"]
        /\ window[p].calls = Limit + 1
        /\ now = window[p].start + TickStep
        /\ window[q].calls \in 1..Limit

\* No update is between its write to the store and its cache invalidation.
Invalidated == \A r \in Reqs : req[r].pc # "invalidate"

\* C9: the snapshot the cache serves is younger than the TTL and, once every
\* accepted update has invalidated the cache, is the top-K of the ranking store.
C9_FreshSnapshot ==
    cache.valid =>
        /\ cache.ttl \in 1..CacheTTL
        /\ Invalidated => cache.snap = TopK(score, members, TopSize)

\* C10: at most one rebuild of the snapshot runs at a time.
C10_SingleFlight ==
    Cardinality({q \in Readers : rd[q].pc \in {"miss", "fill"}}) <= 1

\* C11: every score is an integer in 0..ScoreCeiling; an accepted delta that
\* would take the score below zero sets it to zero, and otherwise the new score
\* is the old score plus the delta.
C11_ScoreInRange ==
    [][/\ \A p \in Participants : score'[p] \in 0..ScoreCeiling
       /\ \A r \in Reqs : (Decides(r) /\ req'[r].res = "Applied") =>
              LET c == req[r]
                  v == score[c.p] + c.delta
              IN  score'[c.p] = IF v < 0 THEN 0 ELSE v
      ]_vars

\* A participant at zero lost a point and stayed at zero, and another one
\* gained two points.
C11_Witness ==
    \E r \in Reqs :
        LET c == req[r] IN
        /\ c.res = "Applied" /\ c.pc = "invalidate"
        /\ c.old = 0 /\ c.delta = -1 /\ score[c.p] = 0
        /\ c.seq = 2 /\ <<c.p, 1>> \in applied
        /\ \E q \in Participants : q # c.p /\ score[q] = 2

\* The engine state a refused command must leave alone.
Outcome == <<score, lastSeq, members, applied, cache, generation, published>>

\* C12: a command refused as rate-limited, duplicate or invalid leaves the
\* scores, the sequence numbers, the ranking, the cached snapshot and the
\* generation unchanged and never emits; an accepted command changes the score
\* and records its sequence number in the same step, so a handler past the
\* check always finds its sequence number recorded.
C12_AllOrNothing ==
    [][\A r \in Reqs :
        LET c == req[r]
            refused == {"RateLimited", "RejectedDuplicate", "RejectedInvalid"}
        IN
        /\ (c.res = "none" /\ req'[r].res \in refused) =>
               /\ UNCHANGED Outcome
               /\ TopK(score', members', TopSize) = TopK(score, members, TopSize)
               /\ req'[r].pc = "done" /\ ~req'[r].emitted
        /\ (c.res \in refused /\ req'[r] # c) =>
               req'[r] = IdleReq /\ UNCHANGED Outcome
        /\ (c.res = "none" /\ req'[r].res = "Applied") =>
               /\ c.seq > lastSeq[c.p]
               /\ lastSeq'[c.p] = c.seq
               /\ score'[c.p] = Max(0, score[c.p] + c.delta)
               /\ <<c.p, c.seq>> \in applied'
        /\ req'[r].res = "Applied" => lastSeq'[req'[r].p] >= req'[r].seq
      ]_vars

\* The 11th command of the window was refused by the limiter while a stale
\* command of the same participant was refused by the guard, after two
\* commands had been applied.
C12_Witness ==
    \E r1, r2 \in Reqs :
        /\ req[r1].res = "RateLimited" /\ req[r1].seq = 2
        /\ req[r2].res = "RejectedDuplicate"
        /\ req[r1].p = req[r2].p
        /\ lastSeq[req[r1].p] = 2 /\ score[req[r1].p] > 0
        /\ rlCount[RateKey(req[r1].p)] = Limit + 1

\* The handler r has just applied an update that changed the top-K, and g was
\* the last generation published before it.
Changed(r, g) == req[r].pc = "invalidate" /\ req[r].since = g

C14_EmailUnique ==
    \A id, other \in DOMAIN users :
        id # other => users[id].email # users[other].email

\* Two clients created the same email at once: both passed findByEmail, one
\* insert succeeded and the unique index refused the other.
C14_Witness ==
    \E c1, c2 \in Clients :
        /\ op[c1].kind = "create" /\ op[c1].status = 201
        /\ op[c2].kind = "create" /\ op[c2].error = "duplicate key"
        /\ op[c1].data.email = op[c2].data.email
        /\ \E id \in DOMAIN users :
               users[id].email = op[c2].data.email /\ users[id].deleted_at = Null

\* C15: a create or an update that ends while another row holds its email is
\* answered 409 'Email already exists' and leaves the table unchanged, whether
\* that row is active or soft-deleted and whatever runs concurrently; an update
\* to the user's own email is not refused.
C15_EmailConflict ==
    [][\A c \in Clients :
        LET o == op'[c]
            held == \E id \in DOMAIN users :
                        id # o.id /\ users[id].email = o.data.email
        IN  (/\ op[c].pc # "done" /\ o.pc = "done"
             /\ o.kind \in {"create", "update"}
             /\ "email" \in DOMAIN o.data
             /\ o.status # 404) =>
            /\ held => /\ o.status = 409
                       /\ o.error = "Email already exists"
                       /\ users' = users
            /\ ~held => o.status \in {200, 201}
      ]_vars

\* Rows that are soft-deleted, and the test for includeDeleted in a query.
SoftDeleted == {id \in DOMAIN users : users[id].deleted_at # Null}
IncludesDeleted(filters) ==
    "includeDeleted" \in DOMAIN filters /\ filters.includeDeleted

\* C16: a successful deleteUser(id) keeps the row and changes nothing but its
\* deleted_at; while a row is soft-deleted, getUserById does not return it,
\* getAllUsers and count without includeDeleted do not return or count it,
\* getStats does not count it, and getAllUsers with includeDeleted = true and
\* no other filter returns it.
C16_SoftDeleteHides ==
    [][\A c \in Clients :
        LET o == op[c]
            n == op'[c]
        IN  /\ (o.pc = "idle" /\ n.kind = "delete" /\ n.status = 200) =>
                   /\ DOMAIN users' = DOMAIN users
                   /\ users'[n.id].deleted_at # Null
                   /\ \A id \in DOMAIN users : \A k \in DOMAIN users[id] :
                          (id # n.id \/ k # "deleted_at")
                              => users'[id][k] = users[id][k]
            /\ (o.pc = "idle" /\ n.kind = "getById" /\ n.id \in SoftDeleted) =>
                   n.result = Null /\ n.status = 404
            /\ (n.kind = "getAll" /\ o.rows = Null /\ n.rows # Null) =>
                   LET rows == The(n.rows)
                       seen == {rows[i].id : i \in 1..Len(rows)}
                   IN  /\ ~IncludesDeleted(n.filters) => seen \cap SoftDeleted = {}
                       /\ n.filters = [includeDeleted |-> TRUE] =>
                              /\ seen = DOMAIN users
                              /\ \A i \in 1..Len(rows) : rows[i] = users[rows[i].id]
            /\ (n.kind = "getAll" /\ o.total = Null /\ n.total # Null) =>
                   /\ ~IncludesDeleted(n.filters) =>
                          The(n.total) <= Cardinality(DOMAIN users \ SoftDeleted)
                   /\ DOMAIN n.filters = {"page", "limit"} =>
                          The(n.total) = Cardinality(DOMAIN users \ SoftDeleted)
            /\ (o.pc = "idle" /\ n.kind = "getStats") =>
                   The(n.total) = Cardinality(DOMAIN users \ SoftDeleted)
            /\ (n.kind = "getStats" /\ o.pc = "status" /\ n.pc = "done") =>
                   The(n.result).totalUsers = The(o.total)
      ]_vars

\* A soft-deleted user and an active one; getAllUsers() answered with the
\* active one alone.
C16_Witness ==
    \E gone \in SoftDeleted, kept \in DOMAIN users \ SoftDeleted :
        /\ DOMAIN users = {gone, kept}
        /\ op[Solo].kind = "getAll" /\ op[Solo].pc = "done"
        /\ op[Solo].filters = NoData
        /\ op[Solo].result = Some(<<users[kept]>>)

\* C17: when deleteUser(id) on an active user is followed by restoreUser(id),
\* both succeed, restoreUser returns the row as it was before the delete, with
\* deleted_at = null, the table holds that row again, and getUserById and
\* getAllUsers return it.
C17_DeleteRestoreRoundTrip ==
    [][\A id \in UserIds :
        LET o == op[Solo]
            n == op'[Solo]
        IN  /\ (o.pc = "idle" /\ n.kind = "delete" /\ n.id = id
                  /\ id \in DOMAIN users /\ users[id].deleted_at = Null) =>
                   n.status = 200 /\ n.was = Some(users[id])
            /\ \A row \in o.was :
                   (o.pc = "idle" /\ row.id = id
                      /\ n.kind = "restore" /\ n.id = id) =>
                       /\ n.status = 200
                       /\ row.deleted_at = Null
                       /\ n.result = Some(row)
                       /\ users' = [users EXCEPT ![id] = row]
                       /\ FindById(id)' = Some(row)
                       /\ \A rows \in FindAll(NoData)' :
                              \E i \in 1..Len(rows) : rows[i] = row
      ]_vars

\* A user that was updated after its creation has been soft-deleted and
\* restored.
C17_Witness ==
    \E id \in DOMAIN users :
        /\ op[Solo].kind = "restore" /\ op[Solo].pc = "done"
        /\ op[Solo].id = id /\ op[Solo].status = 200
        /\ op[Solo].result = Some(users[id])
        /\ users[id].name = Name2
        /\ users[id].updated_at > users[id].created_at

\* C18: when getAllUsers is given both page and limit, the filters it passes
\* to UserModel.count and UserModel.findAll, and the currentPage and pageSize
\* it reports, hold page = max(1, page) and limit = max(1, min(100, limit)),
\* so that page >= 1, 1 <= limit <= 100 and the OFFSET is not negative; when
\* page or limit is missing, findAll gets the filters as they came, applies no
\* LIMIT, and all matching users come back as a plain array.
C18_PaginationSanitized ==
    [][LET o == op[Solo]
           n == op'[Solo]
       IN  /\ (o.pc = "idle" /\ n.kind = "getAll" /\ Paged(n.data)) =>
                  /\ n.pc = "queries"
                  /\ DOMAIN n.filters = DOMAIN n.data
                  /\ \A k \in DOMAIN n.data \ {"page", "limit"} :
                         n.filters[k] = n.data[k]
                  /\ n.filters.page =
                         (IF n.data.page < 1 THEN 1 ELSE n.data.page)
                  /\ n.filters.limit =
                         (IF n.data.limit < 1 THEN 1
                          ELSE IF n.data.limit > 100 THEN 100
                          ELSE n.data.limit)
                  /\ n.filters.page >= 1
                  /\ n.filters.limit >= 1 /\ n.filters.limit <= 100
                  /\ (n.filters.page - 1) * n.filters.limit >= 0
           /\ (o.pc = "queries") =>
                  /\ n.filters = o.filters
                  /\ n.error = "none"
                  /\ n.pc = "done" =>
                         /\ The(n.result).pagination.currentPage = o.filters.page
                         /\ The(n.result).pagination.pageSize = o.filters.limit
                         /\ Len(The(n.result).data) <= o.filters.limit
           /\ (o.pc = "idle" /\ n.kind = "getAll" /\ ~Paged(n.data)) =>
                  n.pc = "findAll" /\ n.filters = n.data
           /\ (o.pc = "findAll") =>
                  /\ n.pc = "done" /\ n.error = "none"
                  /\ n.result = n.rows
                  /\ Len(The(n.rows)) = Cardinality(Selected(o.filters))
                  /\ {The(n.rows)[i].id : i \in 1..Len(The(n.rows))}
                         = Selected(o.filters)
      ]_vars

\* getAllUsers({page: 0, limit: 101}) over a table of users answered with
\* page 1 of size 100.
C18_Witness ==
    /\ op[Solo].kind = "getAll" /\ op[Solo].pc = "done"
    /\ op[Solo].data = [page |-> 0, limit |-> MaxPageSize + 1]
    /\ The(op[Solo].result).pagination.currentPage = 1
    /\ The(op[Solo].result).pagination.pageSize = MaxPageSize
    /\ Len(The(op[Solo].result).data) = MaxId

\* C19: in a paginated response totalPages = ceil(totalCount / limit),
\* hasNextPage is true iff page < totalPages, hasPreviousPage is true iff
\* page > 1, and the echoed filters are the filters given without page and
\* limit, or undefined when no other filter was given.
C19_PaginationMeta ==
    [][LET o == op[Solo]
           n == op'[Solo]
       IN  (o.pc = "queries" /\ n.pc = "done") =>
               LET meta == The(n.result).pagination
                   others == DOMAIN n.data \ {"page", "limit"}
               IN  /\ meta.totalCount = The(n.total)
                   /\ meta.totalCount >= 0
                   /\ meta.totalPages >= 0
                   /\ meta.totalPages * meta.pageSize >= meta.totalCount
                   /\ (meta.totalPages - 1) * meta.pageSize < meta.totalCount
                          \/ meta.totalPages = 0
                   /\ meta.hasNextPage <=> (meta.currentPage < meta.totalPages)
                   /\ meta.hasPreviousPage <=> (meta.currentPage > 1)
                   /\ IF others = {} THEN The(n.result).filters = Null
                      ELSE The(n.result).filters =
                               Some([k \in others |-> n.data[k]])
      ]_vars

\* Page 2 of the two users of a role, one user to the page: two pages, one
\* before and none after, and the role alone echoed as the filters.
C19_Witness ==
    /\ op[Solo].kind = "getAll" /\ op[Solo].pc = "done"
    /\ op[Solo].data = [role |-> Role1, page |-> 2, limit |-> 1]
    /\ LET response == The(op[Solo].result)
       IN  /\ response.pagination.totalCount = 2
           /\ response.pagination.totalPages = 2
           /\ ~response.pagination.hasNextPage
           /\ response.pagination.hasPreviousPage
           /\ response.filters = Some([role |-> Role1])
           /\ Len(response.data) = 1

\* A required field that is missing, empty or all blanks, and an email of the
\* form local@domain.tld: one "@", no blank, something before the "@", and
\* after it a "." with something on both sides.
Blank(data, k) == k \notin DOMAIN data \/ \A i \in 1..Len(data[k]) : data[k][i] = " "

WellFormed(email) ==
    /\ \A i \in 1..Len(email) : email[i] # " "
    /\ Cardinality({i \in 1..Len(email) : email[i] = "@"}) = 1
    /\ LET at == CHOOSE i \in 1..Len(email) : email[i] = "@"
           domain == SubSeq(email, at + 1, Len(email))
       IN  /\ at > 1
           /\ \E dot \in 2..(Len(domain) - 1) : domain[dot] = "."

Refusal(data) ==
    IF Blank(data, "name") THEN "Name is required"
    ELSE IF Blank(data, "email") THEN "Email is required"
    ELSE IF ~WellFormed(data.email) THEN "Invalid email format"
    ELSE IF "age" \in DOMAIN data /\ (data.age < 0 \/ data.age > 150)
    THEN "Age must be between 0 and 150"
    ELSE IF Blank(data, "role") THEN "Role is required"
    ELSE "none"

\* C20: createUser refuses a body whose name is empty or blank, whose email is
\* empty or blank or not of the form local@domain.tld, whose age is given and
\* outside 0..150, or whose role is empty or blank, with the error of the
\* first of these tests that fails, in this order; it then has called neither
\* findByEmail nor create and the users table is unchanged. A body that passes
\* all tests is not refused by the validation.
C20_ValidatesFirst ==
    [][LET o == op[Solo]
           n == op'[Solo]
       IN  (o.pc = "idle" /\ n.kind = "create") =>
               IF Refusal(n.data) # "none"
               THEN /\ n.pc = "done"
                    /\ n.error = Refusal(n.data)
                    /\ n.existing = Null /\ n.result = Null
                    /\ users' = users /\ nextId' = nextId
               ELSE n.error \in {"none", "Email already exists"}
      ]_vars

\* A body with the email of an existing user and a blank role was refused for
\* its role.
C20_Witness ==
    /\ op[Solo].kind = "create" /\ op[Solo].pc = "done"
    /\ op[Solo].error = "Role is required"
    /\ "age" \in DOMAIN op[Solo].data /\ op[Solo].data.age = MaxAge
    /\ \E id \in DOMAIN users :
           users[id].email = op[Solo].data.email /\ users[id].deleted_at = Null

\* C21: a successful create stores what was given: the created row has the
\* given name, email and role, the given age for every age 0..150 and null
\* only when the age was omitted, the given status or 'active' when it was
\* omitted, and deleted_at = null.
C21_CreateStoresGiven ==
    [][LET o == op[Solo]
           n == op'[Solo]
       IN  (o.kind = "create" /\ o.pc = "create" /\ n.status = 201) =>
               /\ n.id \in DOMAIN users' \ DOMAIN users
               /\ n.result = Some(users'[n.id])
               /\ users'[n.id].name = o.data.name
               /\ users'[n.id].email = o.data.email
               /\ users'[n.id].role = o.data.role
               /\ users'[n.id].age = (IF "age" \in DOMAIN o.data
                                      THEN Some(o.data.age) ELSE Null)
               /\ users'[n.id].status = (IF "status" \in DOMAIN o.data
                                         THEN o.data.status ELSE "active")
               /\ users'[n.id].deleted_at = Null
      ]_vars

\* C22: updateUser on an id that has no active user returns null without
\* calling UserModel.update and leaves the table unchanged; on an active user
\* UserModel.update changes only the fields present in the update data and
\* updated_at, sets the fields it changes to the values given, and leaves
\* every other field and every other user unchanged.
C22_UpdateFrame ==
    [][\A c \in Clients :
        LET o == op[c]
            n == op'[c]
        IN  /\ (o.pc = "idle" /\ n.kind = "update" /\ FindById(n.id) = Null) =>
                   /\ n.pc = "done" /\ n.result = Null /\ n.status = 404
                   /\ users' = users
            /\ (o.kind = "update" /\ o.pc \in {"findByEmail", "update"}
                  /\ n.pc # o.pc) =>
                   /\ DOMAIN users' = DOMAIN users
                   /\ \A id \in DOMAIN users : \A k \in DOMAIN users[id] :
                          users'[id][k] # users[id][k] =>
                              /\ o.pc = "update" /\ id = o.id
                              /\ k \in DOMAIN o.data \cup {"updated_at"}
                   /\ n.status = 200 =>
                          /\ n.result = Some(users'[o.id])
                          /\ \A k \in DOMAIN o.data \ {"age"} :
                                 users'[o.id][k] = o.data[k]
      ]_vars

\* Of two users one was renamed some time after its creation; the other is
\* as it was created.
C22_Witness ==
    \E c \in Clients, id, other \in DOMAIN users :
        /\ id # other
        /\ op[c].kind = "update" /\ op[c].pc = "done" /\ op[c].status = 200
        /\ op[c].id = id /\ op[c].data = [name |-> Name2]
        /\ users[id].name = Name2
        /\ users[id].updated_at > users[id].created_at
        /\ users[other].name = Name1
        /\ users[other].updated_at = users[other].created_at

\* 1 + 2 + ... + n
RECURSIVE SumUpTo(_)
SumUpTo(n) == IF n <= 0 THEN 0 ELSE SumUpTo(n - 1) + n

\* C23: for every n in 0..MaxN, sum_to_n_a(n), sum_to_n_b(n) and
\* sum_to_n_c(n) return the same value, 1 + 2 + ... + n = n(n+1)/2; the
\* recursion of sum_to_n_c is never deeper than max(n, 1) calls and the run
\* ends with all three results.
C23_SumsAgree ==
    /\ [](calc.pc = "done" =>
             /\ calc.resultA = calc.resultB /\ calc.resultB = calc.resultC
             /\ calc.resultA = SumUpTo(calc.n)
             /\ 2 * calc.resultA = calc.n * (calc.n + 1))
    /\ [](Len(calc.stack) <= Max(calc.n, 1))
    /\ \A n \in 0..MaxN : (calc.pc = "c" /\ calc.n = n) ~> (calc.pc = "done")

\* The example of the source: the three functions gave 15 for n = 5.
C23_Witness ==
    /\ calc.pc = "done" /\ calc.n = 5
    /\ calc.resultA = 15 /\ calc.resultB = 15 /\ calc.resultC = 15

\* The columns that seed gives a sample user.
SampleOf(row) ==
    [name |-> row.name, email |-> row.email, age |-> The(row.age),
     role |-> row.role, status |-> row.status]

\* C24: seed() inserts the 15 sample users iff the users table has no row,
\* soft-deleted rows counted; on a table with rows it changes nothing, so
\* that a second seed, or a restart of the server, leaves the table of the
\* first.
C24_SeedOnlyWhenEmpty ==
    [][/\ (server.pc = "seed" /\ server'.pc \notin {"seed", "exited"}) =>
              /\ users' = users
              /\ server'.pc = (IF DOMAIN users = {} THEN "insert" ELSE "listen")
       /\ (server.pc = "insert") =>
              /\ Cardinality(DOMAIN users) = server.i - 1
              /\ \A id \in DOMAIN users : users'[id] = users[id]
       /\ (server.pc = "insert" /\ server'.pc = "listen") =>
              /\ Cardinality(DOMAIN users') = 15
              /\ {SampleOf(users'[id]) : id \in DOMAIN users'}
                     = {SampleUsers[i] : i \in 1..Len(SampleUsers)}
              /\ \A id \in DOMAIN users' : users'[id].deleted_at = Null
      ]_vars

\* The server listens over the 15 sample users, seeded into a table that a
\* client had filled and emptied again before.
C24_Witness ==
    /\ server.pc = "listening"
    /\ Cardinality(DOMAIN users) = 15
    /\ nextId > 16

\* C25: deleteUser(id) succeeds only on a user that exists and is not deleted,
\* restoreUser(id) returns the user only when it exists and is soft-deleted;
\* a delete of a deleted or missing user answers 404, a restore of an active
\* or missing user answers 404 with no user, and both leave every row as it
\* was, the deleted_at of the first delete included.
C25_SoftDeleteGuards ==
    [][\A c \in Clients :
        LET o == op[c]
            n == op'[c]
            active == n.id \in DOMAIN users /\ users[n.id].deleted_at = Null
            deleted == n.id \in DOMAIN users /\ users[n.id].deleted_at # Null
        IN  /\ (o.pc = "idle" /\ n.kind = "delete") =>
                   /\ n.status = (IF active THEN 200 ELSE 404)
                   /\ ~active => users' = users
            /\ (o.pc = "idle" /\ n.kind = "restore") =>
                   /\ n.status = (IF deleted THEN 200 ELSE 404)
                   /\ (n.result # Null) <=> deleted
                   /\ ~deleted => users' = users
      ]_vars

\* A second delete, later than the first, was answered 404 and the row keeps
\* the deleted_at of the first.
C25_Witness ==
    \E c \in Clients, id \in DOMAIN users :
        /\ op[c].kind = "delete" /\ op[c].pc = "done" /\ op[c].id = id
        /\ op[c].status = 404
        /\ users[id].deleted_at # Null
        /\ \A at \in users[id].deleted_at : at < clock

\* C26: the server listens only after the connection check, then migrate(),
\* then seed() have returned, in that order; when one of them fails the
\* process exits with code 1, and a process that has exited does not listen.
C26_StartupOrder ==
    /\ [](server.pc = "listening" =>
              server.done = <<"connect", "migrate", "seed">>)
    /\ [](server.pc = "exited" => server.code = 1)
    /\ [][/\ server'.pc = "listening" => server.pc \in {"listen", "listening"}
          /\ server.pc = "connect" => server'.pc \in {"connect", "migrate", "exited"}
          /\ server.pc = "migrate" => server'.pc \in {"migrate", "seed", "exited"}
          /\ server.pc = "seed" =>
                 server'.pc \in {"seed", "insert", "listen", "exited"}
          /\ server.pc = "insert" => server'.pc \in {"insert", "listen", "exited"}
          /\ (server'.pc = "exited" /\ server.pc # "exited") =>
                 /\ server'.code = 1
                 /\ server'.done = server.done
                 /\ "seed" \notin {server.done[k] : k \in 1..Len(server.done)}
          /\ server.pc = "exited" => server' \in {server, Starting}
         ]_vars

\* A start has failed after the migration; the process has exited with 1.
C26_Witness ==
    /\ server.pc = "exited" /\ server.code = 1
    /\ server.done = <<"connect", "migrate">>
    /\ users # << >>

\* C27: updateUser never modifies a soft-deleted user: in every interleaving
\* with a concurrent deleteUser, the step of an update leaves a row whose
\* deleted_at is set as it was, and an update that finds the row soft-deleted
\* answers with no user.
C27_UpdateSparesDeleted ==
    [][\A c \in Clients :
        (op[c].kind = "update" /\ op[c].pc = "update" /\ op'[c].pc = "done") =>
            \A id \in SoftDeleted :
                /\ id \in DOMAIN users' /\ users'[id] = users[id]
                /\ op[c].id = id => op'[c].result = Null
      ]_vars

\* C28: in every state reached through create, PUT and PATCH requests, every
\* stored user has a name and a role that are not blank, an email of the form
\* local@domain.tld, and an age that is null or within 0..150.
C28_StoredUsersValid ==
    \A id \in DOMAIN users :
        /\ ~Blank(users[id], "name")
        /\ ~Blank(users[id], "role")
        /\ WellFormed(users[id].email)
        /\ \A age \in users[id].age : age >= 0 /\ age <= 150

\* C29: for every sortBy and sortOrder a request can supply, the ORDER BY
\* clause that findAll builds holds a column of the whitelist and the
\* direction ASC or DESC, and a sortBy outside the whitelist gives
\* ORDER BY id DESC; no text of the request becomes text of the statement.
C29_OrderByWhitelisted ==
    \A c \in Clients :
        (op[c].kind = "getAll" /\ op[c].pc \in {"queries", "findAll", "done"}) =>
            LET clause == OrderBy(op[c].filters)
                asked == IF "sortBy" \in DOMAIN op[c].filters
                         THEN op[c].filters.sortBy ELSE "id"
            IN  /\ clause[1] \in {"id", "name", "email", "age", "role",
                                  "created_at", "updated_at"}
                /\ clause[2] \in {"ASC", "DESC"}
                /\ asked \notin {"id", "name", "email", "age", "role",
                                 "created_at", "updated_at"}
                       => clause = <<"id", "DESC">>

\* C30: under concurrent creates, deletes and restores, a paginated
\* response of getAllUsers holds at most pageSize users in data, and its
\* pagination.totalCount is the number of users that matched the filters in
\* the table from which data was read.
C30_PageConsistent ==
    \A c \in Clients :
        (op[c].kind = "getAll" /\ op[c].pc = "done" /\ op[c].matched # Null
            /\ op[c].result # Null) =>
            LET response == The(op[c].result) IN
            /\ Len(response.data) <= response.pagination.pageSize
            /\ response.pagination.totalCount = The(op[c].matched)

====
